---------------------------- MODULE Spec2Model ----------------------------
(***************************************************************************)
(* A model of examples/python_client.py: the HermesClient class (its       *)
(* constructor, generate and status) and the three try/except call sites   *)
(* of main that consume the results.                                       *)
(*                                                                         *)
(* Strings are sequences of one-character strings, so that rstrip, URL     *)
(* formatting and JSON decoding are computed character by character.       *)
(* The requests library is the environment: requests.post / requests.get   *)
(* hand back the final response of the exchange, or raise ConnectionError  *)
(* or Timeout; Response.raise_for_status and Response.json are modelled    *)
(* by what they do on the response.                                        *)
(***************************************************************************)
EXTENDS Integers, Sequences, FiniteSets, TLC

VARIABLES
    constructed,  \* whether HermesClient.__init__ has run
    ctor_arg,     \* the base_url argument it was given
    base_url,     \* self.base_url
    call,         \* per call: its site in main, its request, its progress,
                  \* the requests submitted, what generate/status returned or
                  \* raised, and what its try/except block in main made of it
    conn,         \* per call: the response requests handed back, if any
    idle          \* per call: seconds its connection has been silent

vars == <<constructed, ctor_arg, base_url, call, conn, idle>>

---------------------------------------------------------------------------
(* Strings                                                                 *)

SLASH == "/"

\* rstrip that drops one trailing ch only
rstrip_once(s, ch) ==
    IF Len(s) > 0 /\ s[Len(s)] = ch THEN SubSeq(s, 1, Len(s) - 1) ELSE s

RECURSIVE rstrip(_, _)
\* str.rstrip(chars) for a one-character chars: drops every trailing ch.
rstrip(s, ch) ==
    IF Len(s) > 0 /\ s[Len(s)] = ch THEN rstrip(SubSeq(s, 1, Len(s) - 1), ch) ELSE s

DigitChar == <<"0", "1", "2", "3", "4", "5", "6", "7", "8", "9">>

IsDigit(ch) == \E d \in 1..10 : DigitChar[d] = ch

DigitVal(ch) == (CHOOSE d \in 1..10 : DigitChar[d] = ch) - 1

RECURSIVE Digits(_)
\* str(n) / f"{n}" for a natural number n.
Digits(n) == IF n < 10 THEN <<DigitChar[n + 1]>> ELSE Digits(n \div 10) \o <<DigitChar[(n % 10) + 1]>>

---------------------------------------------------------------------------
(* JSON values and Response.json()                                         *)
(* A value is a record of one shape: t is its type tag, s the characters   *)
(* of a string, n the number, o the (key, value) pairs of an object in     *)
(* insertion order.                                                        *)

JNone == [t |-> "none", s |-> <<>>, n |-> 0, o |-> <<>>]
JStr(s) == [t |-> "str", s |-> s, n |-> 0, o |-> <<>>]
JInt(n) == [t |-> "int", s |-> <<>>, n |-> n, o |-> <<>>]
JObj(o) == [t |-> "obj", s |-> <<>>, n |-> 0, o |-> o]

IsWs(ch) == ch \in {" ", "\t", "\n", "\r"}

RECURSIVE SkipWs(_, _)
SkipWs(b, i) == IF i <= Len(b) /\ IsWs(b[i]) THEN SkipWs(b, i + 1) ELSE i

ParseFail == [ok |-> FALSE, val |-> JNone, next |-> 0]
ParseOk(v, next) == [ok |-> TRUE, val |-> v, next |-> next]

RECURSIVE ScanQuote(_, _)
\* index of the first closing quote at or after i, 0 when there is none
ScanQuote(b, i) ==
    IF i > Len(b) THEN 0
    ELSE IF b[i] = "\"" THEN i
    ELSE ScanQuote(b, i + 1)

\* ParseString with the text trimmed of trailing blanks
ParseStringTrimmed(b, i) ==
    LET j == ScanQuote(b, i + 1)
    IN  IF j = 0 THEN ParseFail
        ELSE ParseOk(JStr(rstrip(SubSeq(b, i + 1, j - 1), " ")), j + 1)

\* b[i] is an opening quote
ParseString(b, i) ==
    LET j == ScanQuote(b, i + 1)
    IN  IF j = 0 THEN ParseFail ELSE ParseOk(JStr(SubSeq(b, i + 1, j - 1)), j + 1)

RECURSIVE ScanInt(_, _, _)
ScanInt(b, i, acc) ==
    IF i <= Len(b) /\ IsDigit(b[i])
    THEN ScanInt(b, i + 1, acc * 10 + DigitVal(b[i]))
    ELSE ParseOk(JInt(acc), i)

\* b[i] is a digit; a leading zero ends the number
ParseInt(b, i) == IF b[i] = "0" THEN ParseOk(JInt(0), i + 1) ELSE ScanInt(b, i, 0)

RECURSIVE DictPut(_, _, _)
\* dict[k] = v: a repeated key keeps its place and takes the new value
DictPut(o, k, v) ==
    IF o = <<>> THEN <<<<k, v>>>>
    ELSE IF o[1][1] = k THEN <<<<k, v>>>> \o Tail(o)
    ELSE <<o[1]>> \o DictPut(Tail(o), k, v)

RECURSIVE ParseValue(_, _)
RECURSIVE ParseMembers(_, _, _)

ParseObject(b, i) ==
    LET j == SkipWs(b, i + 1)
    IN  IF j <= Len(b) /\ b[j] = "}" THEN ParseOk(JObj(<<>>), j + 1)
        ELSE ParseMembers(b, j, <<>>)

ParseValue(b, i) ==
    IF i > Len(b) THEN ParseFail
    ELSE IF b[i] = "\"" THEN ParseString(b, i)
    ELSE IF IsDigit(b[i]) THEN ParseInt(b, i)
    ELSE IF b[i] = "{" THEN ParseObject(b, i)
    ELSE ParseFail

ParseMembers(b, i, acc) ==
    IF i > Len(b) \/ b[i] # "\"" THEN ParseFail
    ELSE LET k == ParseString(b, i)
         IN  IF ~k.ok THEN ParseFail
             ELSE LET c == SkipWs(b, k.next)
                  IN  IF c > Len(b) \/ b[c] # ":" THEN ParseFail
                      ELSE LET v == ParseValue(b, SkipWs(b, c + 1))
                           IN  IF ~v.ok THEN ParseFail
                               ELSE LET e == SkipWs(b, v.next)
                                        o == DictPut(acc, k.val.s, v.val)
                                    IN  IF e > Len(b) THEN ParseFail
                                        ELSE IF b[e] = "," THEN ParseMembers(b, SkipWs(b, e + 1), o)
                                        ELSE IF b[e] = "}" THEN ParseOk(JObj(o), e + 1)
                                        ELSE ParseFail

\* json.loads(text): one value, whitespace around it, nothing after it
json_loads(b) ==
    LET v == ParseValue(b, SkipWs(b, 1))
    IN  IF v.ok /\ SkipWs(b, v.next) = Len(b) + 1 THEN v ELSE ParseFail


---------------------------------------------------------------------------
(* Python values as text: str(v), repr(v) and the "," format               *)

K_prompt == <<"p", "r", "o", "m", "p", "t">>
K_result == <<"r", "e", "s", "u", "l", "t">>
K_error == <<"e", "r", "r", "o", "r">>
K_status == <<"s", "t", "a", "t", "u", "s">>
K_schedulers == <<"s", "c", "h", "e", "d", "u", "l", "e", "r", "s">>
K_memory == <<"m", "e", "m", "o", "r", "y">>
K_total == <<"t", "o", "t", "a", "l">>

RECURSIVE PyRepr(_)
RECURSIVE PyReprItems(_)

\* repr of the pairs of a dict: 'k': v, 'k': v
PyReprItems(o) ==
    IF o = <<>> THEN <<>>
    ELSE <<"'">> \o o[1][1] \o <<"'", ":", " ">> \o PyRepr(o[1][2])
         \o (IF Len(o) > 1 THEN <<",", " ">> \o PyReprItems(Tail(o)) ELSE <<>>)

PyRepr(v) ==
    IF v.t = "str" THEN <<"'">> \o v.s \o <<"'">>
    ELSE IF v.t = "int" THEN Digits(v.n)
    ELSE <<"{">> \o PyReprItems(v.o) \o <<"}">>

\* f"{v}": a string prints as itself, anything else as its repr
PyStr(v) == IF v.t = "str" THEN v.s ELSE PyRepr(v)

RECURSIVE PyCommas(_)
\* f"{n:,}" for a natural number n
PyCommas(n) ==
    IF n < 1000 THEN Digits(n)
    ELSE LET r == n % 1000
             pad == IF r < 10 THEN <<"0", "0">> ELSE IF r < 100 THEN <<"0">> ELSE <<>>
         IN  PyCommas(n \div 1000) \o <<",">> \o pad \o Digits(r)

RECURSIVE DictFind(_, _)
\* position of key k in the pairs o, 0 when absent
DictFind(o, k) ==
    IF o = <<>> THEN 0
    ELSE IF o[Len(o)][1] = k THEN Len(o)
    ELSE DictFind(SubSeq(o, 1, Len(o) - 1), k)

\* v[k] in Python: the value, or the exception the subscript raises
Subscript(v, k) ==
    IF v.t # "obj" THEN [ok |-> FALSE, val |-> JNone, exc |-> "TypeError"]
    ELSE IF DictFind(v.o, k) = 0 THEN [ok |-> FALSE, val |-> JNone, exc |-> "KeyError"]
    ELSE [ok |-> TRUE, val |-> v.o[DictFind(v.o, k)][2], exc |-> "none"]

---------------------------------------------------------------------------
(* Responses and exceptions of the requests library                        *)

NoResponse == [status_code |-> 0, body |-> <<>>]

\* The reason phrase of the status line, as the server sends it.
Reason(code) ==
    IF code = 400 THEN <<"B", "a", "d", " ", "R", "e", "q", "u", "e", "s", "t">>
    ELSE IF code = 404 THEN <<"N", "o", "t", " ", "F", "o", "u", "n", "d">>
    ELSE IF code = 500
    THEN <<"I", "n", "t", "e", "r", "n", "a", "l", " ", "S", "e", "r", "v", "e", "r", " ", "E", "r", "r", "o", "r">>
    ELSE <<>>

NoOutcome ==
    [kind |-> "none", value |-> JNone, exc |-> "none", msg |-> <<>>,
     has_response |-> FALSE, response |-> NoResponse]

Returned(v) ==
    [kind |-> "return", value |-> v, exc |-> "none", msg |-> <<>>,
     has_response |-> FALSE, response |-> NoResponse]

\* an exception raised with no response attached (e.response is None)
Raised(exc, msg) ==
    [kind |-> "raise", value |-> JNone, exc |-> exc, msg |-> msg,
     has_response |-> FALSE, response |-> NoResponse]

\* requests.HTTPError(msg, response=r)
RaisedHTTPError(msg, r) ==
    [kind |-> "raise", value |-> JNone, exc |-> "HTTPError", msg |-> msg,
     has_response |-> TRUE, response |-> r]

MSG_ClientError == <<" ", "C", "l", "i", "e", "n", "t", " ", "E", "r", "r", "o", "r", ":", " ">>
MSG_ServerError == <<" ", "S", "e", "r", "v", "e", "r", " ", "E", "r", "r", "o", "r", ":", " ">>
MSG_ForUrl == <<" ", "f", "o", "r", " ", "u", "r", "l", ":", " ">>
MSG_ExpectingValue == <<"E", "x", "p", "e", "c", "t", "i", "n", "g", " ", "v", "a", "l", "u", "e">>
MSG_ConnectionRefused == <<"C", "o", "n", "n", "e", "c", "t", "i", "o", "n", " ", "r", "e", "f", "u", "s", "e", "d">>
MSG_ReadTimedOut == <<"R", "e", "a", "d", " ", "t", "i", "m", "e", "d", " ", "o", "u", "t", ".">>

\* Response.raise_for_status(): HTTPError for 400..599, nothing otherwise.
raise_for_status(r, url) ==
    IF 400 <= r.status_code /\ r.status_code < 500
    THEN RaisedHTTPError(Digits(r.status_code) \o MSG_ClientError \o Reason(r.status_code)
                         \o MSG_ForUrl \o url, r)
    ELSE IF 500 <= r.status_code /\ r.status_code < 600
    THEN RaisedHTTPError(Digits(r.status_code) \o MSG_ServerError \o Reason(r.status_code)
                         \o MSG_ForUrl \o url, r)
    ELSE NoOutcome

\* Response.json(): the decoded body, or requests.JSONDecodeError.
response_json(r) ==
    LET v == json_loads(r.body)
    IN  IF v.ok THEN Returned(v.val) ELSE Raised("JSONDecodeError", MSG_ExpectingValue)

\* The exceptions that `except requests.RequestException` catches (the
\* JSONDecodeError of Response.json is one of them since requests 2.27).
IsRequestException(exc) == exc \in {"HTTPError", "ConnectionError", "Timeout", "JSONDecodeError"}


---------------------------------------------------------------------------
(* The call sites of main: what each try/except block does with the        *)
(* outcome of its call.  how = "printed" when a print statement ran to      *)
(* the end, "unhandled" when an exception left the block.                  *)

NotSurfaced == [how |-> "none", label |-> "", text |-> <<>>, exc |-> "none"]
Printed(label, text) == [how |-> "printed", label |-> label, text |-> text, exc |-> "none"]
Unhandled(exc) == [how |-> "unhandled", label |-> "", text |-> <<>>, exc |-> exc]

MSG_UnknownError == <<"U", "n", "k", "n", "o", "w", "n", " ", "e", "r", "r", "o", "r">>

\* error = e.response.json(); print(f"... {error['error']}")
PrintErrorField(label, r) ==
    LET error == json_loads(r.body)
        field == Subscript(error.val, K_error)
    IN  IF ~error.ok THEN Unhandled("JSONDecodeError")
        ELSE IF ~field.ok THEN Unhandled(field.exc)
        ELSE Printed(label, PyStr(field.val))

\* error = e.response.json(); print(f"... {error.get('error', 'Unknown error')}")
PrintErrorGet(label, r) ==
    LET error == json_loads(r.body)
    IN  IF ~error.ok THEN Unhandled("JSONDecodeError")
        ELSE IF error.val.t # "obj" THEN Unhandled("AttributeError")
        ELSE IF DictFind(error.val.o, K_error) = 0 THEN Printed(label, MSG_UnknownError)
        ELSE Printed(label, PyStr(Subscript(error.val, K_error).val))

\* print(f"... {result['result']}")
PrintResult(v) ==
    LET field == Subscript(v, K_result)
    IN  IF field.ok THEN Printed("Response", PyStr(field.val)) ELSE Unhandled(field.exc)

\* the three prints of the status block, the last with the "," format
PrintStatus(v) ==
    LET st == Subscript(v, K_status)
        sc == Subscript(v, K_schedulers)
        me == Subscript(v, K_memory)
        to == Subscript(me.val, K_total)
    IN  IF ~st.ok THEN Unhandled(st.exc)
        ELSE IF ~sc.ok THEN Unhandled(sc.exc)
        ELSE IF ~me.ok THEN Unhandled(me.exc)
        ELSE IF ~to.ok THEN Unhandled(to.exc)
        ELSE IF to.val.t = "str" THEN Unhandled("ValueError")
        ELSE IF to.val.t # "int" THEN Unhandled("TypeError")
        ELSE Printed("Status", PyStr(st.val) \o <<"\n">> \o PyStr(sc.val) \o <<"\n">>
                               \o PyCommas(to.val.n))

main_status_site(out) ==
    IF out.kind = "return" THEN PrintStatus(out.value)
    ELSE IF IsRequestException(out.exc) THEN Printed("Failed to get status", out.msg)
    ELSE Unhandled(out.exc)

main_gemma_site(out) ==
    IF out.kind = "return" THEN PrintResult(out.value)
    ELSE IF out.exc = "HTTPError"
    THEN IF out.response.status_code = 400 THEN PrintErrorField("Bad request", out.response)
         ELSE IF out.response.status_code = 500 THEN PrintErrorField("Server error", out.response)
         ELSE Printed("HTTP error", out.msg)
    ELSE IF IsRequestException(out.exc) THEN Printed("Request failed", out.msg)
    ELSE Unhandled(out.exc)

main_llama3_site(out) ==
    IF out.kind = "return" THEN PrintResult(out.value)
    ELSE IF out.exc = "HTTPError" THEN PrintErrorGet("Error", out.response)
    ELSE IF IsRequestException(out.exc) THEN Printed("Request failed", out.msg)
    ELSE Unhandled(out.exc)

Sites == {"status", "gemma", "llama3"}

SiteHandler(site, out) ==
    IF site = "status" THEN main_status_site(out)
    ELSE IF site = "gemma" THEN main_gemma_site(out)
    ELSE main_llama3_site(out)

MODEL_gemma == <<"g", "e", "m", "m", "a">>
MODEL_llama3 == <<"l", "l", "a", "m", "a", "3">>
PROMPT_gemma ==
    <<"W", "h", "a", "t", " ", "i", "s", " ", "E", "l", "i", "x", "i", "r", " ", "p", "r", "o", "g", "r", "a", "m", "m", "i", "n", "g", " ", "l", "a", "n", "g", "u", "a", "g", "e", " ", "i", "n", " ", "o", "n", "e", " ", "s", "e", "n", "t", "e", "n", "c", "e", "?">>
PROMPT_llama3 ==
    <<"E", "x", "p", "l", "a", "i", "n", " ", "f", "u", "n", "c", "t", "i", "o", "n", "a", "l", " ", "p", "r", "o", "g", "r", "a", "m", "m", "i", "n", "g", " ", "i", "n", " ", "o", "n", "e", " ", "s", "e", "n", "t", "e", "n", "c", "e", ".">>

SiteModel(site) == IF site = "gemma" THEN MODEL_gemma ELSE MODEL_llama3
SitePrompt(site) == IF site = "gemma" THEN PROMPT_gemma ELSE PROMPT_llama3


---------------------------------------------------------------------------
(* The client                                                              *)

\* The calls of one run: two callers sharing one client, each making one call
\* from one of the call sites of main, in any order and overlap.
Calls == {1, 2}

\* Seconds of the model's clock step, and the cap of a connection's idle clock.
TickSeconds == 30
MaxIdle == 120

GENERATE_TIMEOUT == 60
STATUS_TIMEOUT == 10

DEFAULT_BASE == <<"h", "t", "t", "p", ":", "/", "/", "l", "o", "c", "a", "l", "h", "o", "s", "t", ":", "4", "0", "2", "0">>
PATH_llm == <<"/", "v", "1", "/", "l", "l", "m", "/">>
PATH_status == <<"/", "v", "1", "/", "s", "t", "a", "t", "u", "s">>

\* The base_url arguments a client is built with.
BaseUrlArgs == {DEFAULT_BASE, DEFAULT_BASE \o <<SLASH>>, DEFAULT_BASE \o <<SLASH, SLASH>>}

\* The status codes of the responses requests may hand back.  A 1xx, 204 or
\* 304 response reaches the caller with an empty body whatever the service
\* sent (the HTTP layer reads no body for them); the others carry any body.
BodyStatusCodes == {200, 300, 400, 404, 500}
NoBodyStatusCodes == {101, 204, 304}

BODY_result == <<"{", "\"", "r", "e", "s", "u", "l", "t", "\"", ":", "\"", " ", "a", " ", "\"", "}">>
BODY_result_empty == <<" ", "{", "\"", "r", "e", "s", "u", "l", "t", "\"", " ", ":", " ", "\"", "\"", "}", " ">>
BODY_error == <<"{", "\"", "e", "r", "r", "o", "r", "\"", ":", "\"", "e", "\"", "}">>
BODY_empty_object == <<"{", "}">>
BODY_not_json == <<"o", "o", "p", "s">>
BODY_status ==
    <<"{", "\"", "s", "t", "a", "t", "u", "s", "\"", ":", "\"", "o", "k", "\"", ",", "\"", "s", "c", "h", "e", "d", "u", "l", "e", "r", "s", "\"", ":", "2", ",", "\"", "m", "e", "m", "o", "r", "y", "\"", ":", "{", "\"", "t", "o", "t", "a", "l", "\"", ":", "1", "0", "4", "8", "5", "7", "6", "}", "}">>
BODY_string == <<"\"", "x", "\"">>

Bodies ==
    {BODY_result, BODY_result_empty, BODY_error, BODY_empty_object, BODY_not_json,
     BODY_status, BODY_string}

Responses ==
    [status_code : BodyStatusCodes, body : Bodies]
        \cup [status_code : NoBodyStatusCodes, body : {<<>>}]

NotStarted ==
    [state |-> "not_started", site |-> "none", method |-> "none", url |-> <<>>,
     payload |-> JNone, sent |-> 0, prior |-> {},
     outcome |-> NoOutcome, surfaced |-> NotSurfaced]

Completed(c) == call[c].state \in {"completed_success", "completed_failure"}

\* timeout=60 of requests.post, timeout=10 of requests.get
TimeoutOf(site) == IF site = "status" THEN STATUS_TIMEOUT ELSE GENERATE_TIMEOUT

\* Expired with no timeout given to requests
ExpiredNever(site, silent) == FALSE

\* the connection has been silent for the whole timeout
Expired(site, silent) == silent >= TimeoutOf(site)

\* ResponseFor with one response slot shared by the calls
ResponseForShared(c) == conn'[CHOOSE d \in Calls : conn'[d] # NoResponse]

\* The response requests hands to call c: the one that arrived on c's own
\* connection (requests.post and requests.get open a session of their own
\* per call).
ResponseFor(c) == conn'[c]

\* lines 55-56: response.raise_for_status(); return response.json()
generate_result(r, url) ==
    LET e == raise_for_status(r, url)
    IN  IF e.kind = "raise" THEN e ELSE response_json(r)

\* status_result answering from the first status result obtained
status_result_memoized(r, url) ==
    IF \E d \in Calls : call[d].site = "status" /\ call[d].outcome.kind = "return"
    THEN call[CHOOSE d \in Calls : call[d].site = "status" /\ call[d].outcome.kind = "return"].outcome
    ELSE LET e == raise_for_status(r, url)
         IN  IF e.kind = "raise" THEN e ELSE response_json(r)

\* lines 70-71: response.raise_for_status(); return response.json()
status_result(r, url) ==
    LET e == raise_for_status(r, url)
    IN  IF e.kind = "raise" THEN e ELSE response_json(r)

\* Finish that submits the request once more after a transport failure
FinishRetrying(c, out) ==
    IF out.exc \in {"ConnectionError", "Timeout"} /\ call[c].sent < 2
    THEN /\ call' = [call EXCEPT ![c].sent = call[c].sent + 1]
         /\ idle' = [idle EXCEPT ![c] = 0]
    ELSE /\ call' = [call EXCEPT ![c].state = IF out.kind = "return" THEN "completed_success"
                                              ELSE "completed_failure",
                                ![c].outcome = out,
                                ![c].surfaced = SiteHandler(call[c].site, out)]
         /\ idle' = [idle EXCEPT ![c] = 0]

\* The call ends with outcome out and its call site in main handles it.
Finish(c, out) ==
    call' = [call EXCEPT ![c].state = IF out.kind = "return" THEN "completed_success"
                                       ELSE "completed_failure",
                         ![c].outcome = out,
                         ![c].surfaced = SiteHandler(call[c].site, out)]
    /\ idle' = [idle EXCEPT ![c] = 0]

Init ==
    /\ constructed = FALSE
    /\ ctor_arg = <<>>
    /\ base_url = <<>>
    /\ call = [c \in Calls |-> NotStarted]
    /\ conn = [c \in Calls |-> NoResponse]
    /\ idle = [c \in Calls |-> 0]

\* HermesClient.__init__(base_url)
HermesClient_init(arg) ==
    /\ ~constructed
    /\ constructed' = TRUE
    /\ ctor_arg' = arg
    /\ base_url' = rstrip(arg, SLASH)
    /\ UNCHANGED <<call, conn, idle>>

\* generate, up to the submission of the POST (lines 45-53)
generate_submit(c, site) ==
    /\ constructed
    /\ call[c].state = "not_started"
    /\ call' = [call EXCEPT ![c] =
                  [NotStarted EXCEPT !.state = "awaiting", !.site = site, !.method = "POST",
                                     !.url = base_url \o PATH_llm \o SiteModel(site),
                                     !.payload = JObj(<<<<K_prompt, JStr(SitePrompt(site))>>>>),
                                     !.sent = call[c].sent + 1,
                                     !.prior = {d \in Calls : Completed(d)}]]
    /\ UNCHANGED <<constructed, ctor_arg, base_url, conn, idle>>

\* status, up to the submission of the GET (lines 68-69)
status_submit(c) ==
    /\ constructed
    /\ call[c].state = "not_started"
    /\ call' = [call EXCEPT ![c] =
                  [NotStarted EXCEPT !.state = "awaiting", !.site = "status", !.method = "GET",
                                     !.url = base_url \o PATH_status,
                                     !.sent = call[c].sent + 1,
                                     !.prior = {d \in Calls : Completed(d)}]]
    /\ UNCHANGED <<constructed, ctor_arg, base_url, conn, idle>>

\* Time passes on a connection that has received nothing.
Tick(c) ==
    /\ call[c].state = "awaiting"
    /\ conn[c] = NoResponse
    /\ ~Expired(call[c].site, idle[c])
    /\ idle[c] < MaxIdle
    /\ idle' = [idle EXCEPT ![c] = idle[c] + TickSeconds]
    /\ UNCHANGED <<constructed, ctor_arg, base_url, call, conn>>

\* requests raises ConnectionError: refused, reset, name not resolved.
ConnectionFails(c) ==
    /\ call[c].state = "awaiting"
    /\ conn[c] = NoResponse
    /\ Finish(c, Raised("ConnectionError", MSG_ConnectionRefused))
    /\ UNCHANGED <<constructed, ctor_arg, base_url, conn>>

\* requests raises Timeout once the connection was silent for the timeout.
TimesOut(c) ==
    /\ call[c].state = "awaiting"
    /\ conn[c] = NoResponse
    /\ Expired(call[c].site, idle[c])
    /\ Finish(c, Raised("Timeout", MSG_ReadTimedOut))
    /\ UNCHANGED <<constructed, ctor_arg, base_url, conn>>

\* generate, from the arrival of the response r on (lines 48-56)
generate_return(c, r) ==
    /\ call[c].state = "awaiting"
    /\ call[c].site # "status"
    /\ conn[c] = NoResponse
    /\ ~Expired(call[c].site, idle[c])
    /\ conn' = [conn EXCEPT ![c] = r]
    /\ Finish(c, generate_result(ResponseFor(c), call[c].url))
    /\ UNCHANGED <<constructed, ctor_arg, base_url>>

\* status, from the arrival of the response r on (lines 69-71)
status_return(c, r) ==
    /\ call[c].state = "awaiting"
    /\ call[c].site = "status"
    /\ conn[c] = NoResponse
    /\ ~Expired(call[c].site, idle[c])
    /\ conn' = [conn EXCEPT ![c] = r]
    /\ Finish(c, status_result(ResponseFor(c), call[c].url))
    /\ UNCHANGED <<constructed, ctor_arg, base_url>>

\* The steps of a run whose client is built from one of args and whose
\* service answers with one of responses.
NextWith(args, responses) ==
    \/ \E arg \in args : HermesClient_init(arg)
    \/ \E c \in Calls, site \in {"gemma", "llama3"} : generate_submit(c, site)
    \/ \E c \in Calls : status_submit(c)
    \/ \E c \in Calls : Tick(c)
    \/ \E c \in Calls : ConnectionFails(c)
    \/ \E c \in Calls : TimesOut(c)
    \/ \E c \in Calls, r \in responses : generate_return(c, r)
    \/ \E c \in Calls, r \in responses : status_return(c, r)

Next == NextWith(BaseUrlArgs, Responses)

Spec == Init /\ [][Next]_vars

\* The runs checked for progress: the client of main, and a service with one
\* answer of each kind (a success, a server error, an empty 204).
LiveBaseUrlArgs == {DEFAULT_BASE \o <<SLASH>>}
LiveResponses ==
    {[status_code |-> 200, body |-> BODY_result],
     [status_code |-> 500, body |-> BODY_error],
     [status_code |-> 204, body |-> <<>>]}

LiveNext == NextWith(LiveBaseUrlArgs, LiveResponses)

\* Time passes, and the timer of requests fires when it is due.  Nothing is
\* assumed of the service: it may never answer.
Fairness ==
    \A c \in Calls :
        /\ WF_vars(Tick(c))
        /\ WF_vars(TimesOut(c))

FairSpec == Init /\ [][LiveNext]_vars /\ Fairness


---------------------------------------------------------------------------
(* Reference readings of the wire, written out by hand and independent of  *)
(* the decoder above: what each body of the model says.                    *)

TEXT_a == <<" ", "a", " ">>

\* {"result":"X"} as the service writes it, compact and with blanks
ResultBody(x) == <<"{", "\"">> \o K_result \o <<"\"", ":", "\"">> \o x \o <<"\"", "}">>
ResultBodySpaced(x) ==
    <<" ", "{", "\"">> \o K_result \o <<"\"", " ", ":", " ", "\"">> \o x \o <<"\"", "}", " ">>
ErrorBody(x) == <<"{", "\"">> \o K_error \o <<"\"", ":", "\"">> \o x \o <<"\"", "}">>

ResultTexts == {TEXT_a, <<>>}
ErrorTexts == {<<"e">>}

STATUS_VALUE ==
    JObj(<< <<K_status, JStr(<<"o", "k">>)>>,
            <<K_schedulers, JInt(2)>>,
            <<K_memory, JObj(<< <<K_total, JInt(1048576)>> >>)>> >>)

ValidJson == Bodies \ {BODY_not_json}

Decoded(body) ==
    IF body = BODY_result THEN JObj(<< <<K_result, JStr(TEXT_a)>> >>)
    ELSE IF body = BODY_result_empty THEN JObj(<< <<K_result, JStr(<<>>)>> >>)
    ELSE IF body = BODY_error THEN JObj(<< <<K_error, JStr(<<"e">>)>> >>)
    ELSE IF body = BODY_empty_object THEN JObj(<<>>)
    ELSE IF body = BODY_status THEN STATUS_VALUE
    ELSE IF body = BODY_string THEN JStr(<<"x">>)
    ELSE JNone

Is2xx(code) == 200 <= code /\ code <= 299

Answered(c) == Completed(c) /\ conn[c] # NoResponse

IsGenerate(c) == call[c].site \in {"gemma", "llama3"}

\* The outcome that the response r alone determines.
OutcomeOf(out, r) ==
    IF r.status_code >= 400
    THEN out.kind = "raise" /\ out.exc = "HTTPError" /\ out.has_response /\ out.response = r
    ELSE IF r.body \in ValidJson
    THEN out.kind = "return" /\ out.value = Decoded(r.body)
    ELSE out.kind = "raise" /\ out.exc = "JSONDecodeError"


---------------------------------------------------------------------------
(* Properties                                                              *)

\* C1: a generate call answered 200 with the body {"result": X} completes in
\* success and returns a dictionary whose result is X character for character,
\* also for the empty X and for an X with blanks at its ends.
C1_GenerateReturnsResultExactly ==
    \A c \in Calls : \A x \in ResultTexts :
        (/\ IsGenerate(c) /\ Answered(c)
         /\ conn[c].status_code = 200
         /\ conn[c].body \in {ResultBody(x), ResultBodySpaced(x)})
        => /\ call[c].state = "completed_success"
           /\ call[c].outcome = Returned(JObj(<< <<K_result, JStr(x)>> >>))

C1_Witness ==
    \E c, d \in Calls :
        /\ call[c].site = "gemma" /\ call[d].site = "llama3"
        /\ conn[c] = [status_code |-> 200, body |-> ResultBody(TEXT_a)]
        /\ conn[d] = [status_code |-> 200, body |-> ResultBodySpaced(<<>>)]
        /\ call[c].outcome = Returned(JObj(<< <<K_result, JStr(TEXT_a)>> >>))
        /\ call[d].outcome = Returned(JObj(<< <<K_result, JStr(<<>>)>> >>))

\* C2: every answer to generate or status with a status outside 2xx and the
\* body {"error": X} ends the call in failure with an error whose message is X
\* and whose status is the status code of the answer.
C2_ErrorMessageAndStatus ==
    \A c \in Calls : \A x \in ErrorTexts :
        (Answered(c) /\ ~Is2xx(conn[c].status_code) /\ conn[c].body = ErrorBody(x))
        => /\ call[c].state = "completed_failure"
           /\ call[c].outcome.kind = "raise"
           /\ call[c].outcome.msg = x
           /\ call[c].outcome.has_response
           /\ call[c].outcome.response.status_code = conn[c].status_code

\* C3: every answer with a status outside 2xx whose body is not JSON or has
\* no error field still ends the call in a classified failure with a non-empty
\* message, and nothing escapes the caller unhandled.
C3_GenericErrorNeverUnhandled ==
    \A c \in Calls :
        (/\ Answered(c) /\ ~Is2xx(conn[c].status_code)
         /\ conn[c].body \notin {ErrorBody(x) : x \in ErrorTexts})
        => /\ call[c].state = "completed_failure"
           /\ call[c].outcome.kind = "raise"
           /\ call[c].outcome.msg # <<>>
           /\ call[c].surfaced.how # "unhandled"

\* C4: every answer with a status outside 200-299 ends the call in failure
\* with one error; no call succeeds on such an answer.
C4_NonSuccessStatusFails ==
    \A c \in Calls :
        (Answered(c) /\ ~Is2xx(conn[c].status_code))
        => /\ call[c].state = "completed_failure"
           /\ call[c].outcome.kind = "raise"

\* The fields a success body must carry: result for generate; status,
\* schedulers and memory for status.
WellFormed(c, body) ==
    IF IsGenerate(c) THEN body \in {BODY_result, BODY_result_empty} ELSE body = BODY_status

\* C5: a 2xx answer whose body is not JSON, or is JSON without the expected
\* fields, is never returned as a success: the call fails, and not with the
\* error of a non-2xx answer.
C5_MalformedSuccessRejected ==
    \A c \in Calls :
        (Answered(c) /\ Is2xx(conn[c].status_code) /\ ~WellFormed(c, conn[c].body))
        => /\ call[c].state = "completed_failure"
           /\ call[c].outcome.kind = "raise"
           /\ call[c].outcome.exc # "HTTPError"


TransportFailed(c) == Completed(c) /\ conn[c] = NoResponse

C8_StatusNotMemoized ==
    \A c, d \in Calls :
        (/\ call[c].site = "status" /\ call[d].site = "status"
         /\ c \in call[d].prior /\ Answered(d))
        => /\ call[c].sent = 1 /\ call[d].sent = 1
           /\ OutcomeOf(call[d].outcome, conn[d])

C8_Witness ==
    \E c, d \in Calls :
        /\ call[c].site = "status" /\ call[d].site = "status"
        /\ c \in call[d].prior
        /\ conn[c] = [status_code |-> 200, body |-> BODY_empty_object]
        /\ conn[d] = [status_code |-> 200, body |-> BODY_status]
        /\ call[c].outcome = Returned(JObj(<<>>))
        /\ call[d].outcome = Returned(STATUS_VALUE)

NoTrailingSlash(u) == u = <<>> \/ u[Len(u)] # SLASH

\* u is arg without its trailing slashes
StrippedOf(u, arg) ==
    /\ Len(u) <= Len(arg)
    /\ SubSeq(arg, 1, Len(u)) = u
    /\ \A i \in (Len(u) + 1)..Len(arg) : arg[i] = SLASH
    /\ NoTrailingSlash(u)

\* C9: construction submits no request and stores the argument without its
\* trailing slashes; from then on the stored base address never changes.
C9_BaseAddressStable ==
    /\ [](constructed => StrippedOf(base_url, ctor_arg))
    /\ [](~constructed => \A c \in Calls : call[c].sent = 0)
    /\ [][(~constructed /\ constructed') => \A c \in Calls : call'[c].sent = 0]_vars
    /\ [][constructed => (constructed' /\ base_url' = base_url)]_vars

C9_Witness ==
    /\ constructed
    /\ ctor_arg = DEFAULT_BASE \o <<SLASH, SLASH>>
    /\ base_url = DEFAULT_BASE
    /\ \E c, d \in Calls : call[c].state = "completed_success" /\ call[d].state = "completed_failure"

\* C10: with calls in flight together, each call's outcome is the one its own
\* response (or transport failure) determines, and a step of one call leaves
\* every other call as it was.
C10_CallsIndependent ==
    /\ [](\A c \in Calls :
            /\ Answered(c) => OutcomeOf(call[c].outcome, conn[c])
            /\ TransportFailed(c) => call[c].outcome.exc \in {"ConnectionError", "Timeout"})
    /\ [][\A c, d \in Calls :
            (c # d /\ (call'[c] # call[c] \/ conn'[c] # conn[c] \/ idle'[c] # idle[c]))
            => (call'[d] = call[d] /\ conn'[d] = conn[d] /\ idle'[d] = idle[d])]_vars

C10_Witness ==
    \E c, d \in Calls :
        /\ c # d
        /\ call[c].prior = {} /\ call[d].prior = {}
        /\ Answered(c) /\ Answered(d)
        /\ conn[c] = [status_code |-> 500, body |-> BODY_error]
        /\ conn[d] = [status_code |-> 200, body |-> BODY_result]
        /\ call[c].outcome.exc = "HTTPError" /\ call[c].outcome.response = conn[c]
        /\ call[d].outcome = Returned(JObj(<< <<K_result, JStr(TEXT_a)>> >>))

=============================================================================
